---- MODULE Spec2Model ----
(***************************************************************************)
(* Trade-journal bot (src/bot.py): the per-user conversation state kept in *)
(* context.user_data, the two SQLite tables pending_trades / closed_trades *)
(* and the handlers that drive the open-trade and close-trade flows.       *)
(*                                                                         *)
(* Every handler of the bot is one action: python-telegram-bot processes   *)
(* updates one at a time (Application.builder() leaves concurrent_updates  *)
(* off), and each handler opens, commits and closes its own connection.    *)
(*                                                                         *)
(* Representation.                                                         *)
(*  - A value that may be None (or a missing dict key, which every read in *)
(*    the code treats the same through dict.get) is a sequence of length   *)
(*    0 or 1: None == << >>, a value v is << v >>.  String-valued fields   *)
(*    use the string "None" instead.                                       *)
(*  - Prices and lots are floats in the code; here they are integers in    *)
(*    units of 1/10000 (float("1.1050") is 11050).                         *)
(*  - Time stamps are whole seconds since 2025-01-01 09:00:00 in the       *)
(*    configured zone, which is when the clock of the model starts.  The   *)
(*    ISO text the code stores (isoformat) and reads back (fromisoformat)  *)
(*    is represented by the same number of seconds: both stamps it stores  *)
(*    have microsecond = 0.                                                *)
(*  - A trade id "TRD-<SYMBOL>-<YYYYMMDDHHMMSS>" is the pair of its symbol *)
(*    part and its second: two ids are equal exactly when both agree.      *)
(*  - A table is the sequence of its rows in increasing rowid order.       *)
(***************************************************************************)
EXTENDS Integers, Sequences, FiniteSets, TLC

VARIABLES
    ud,        \* ud[u]: context.user_data of user u
    pending,   \* table pending_trades
    closed,    \* table closed_trades
    now,       \* the wall clock read by datetime.now(TIMEZONE), in seconds
    last,      \* the update handled last: handler, user, text typed, reply sent, store effects
    deleted    \* history: ids removed by DEL_PENDING while a close flow holds a snapshot of them

vars == <<ud, pending, closed, now, last, deleted>>

(***************************************************************************)
(* Bounds of the model.                                                    *)
(***************************************************************************)
MaxPending == 1      \* rows in pending_trades
MaxClosed == 1       \* rows in closed_trades
MaxTick == 1         \* seconds the clock may advance
MaxPhotos == 1       \* photos a close flow of SpecPhotos is sent beyond ten

Users == {1, 2}

None == << >>
Some(v) == << v >>
IsNone(o) == o = << >>
Val(o) == o[1]

NoStr == "None"

(***************************************************************************)
(* Checklist and scoring                                                   *)
(***************************************************************************)
CHECKLIST_ITEMS ==
    << <<"trend_week", 10>>, <<"trend_daily", 10>>, <<"trend_4h", 10>>,
       <<"aoi_valid", 10>>, <<"aoi_plus", 20>>, <<"entry_4h_engulf", 10>>,
       <<"entry_2h_sos", 10>>, <<"entry_1h_ms", 0>>, <<"conf_d_ema50", 5>>,
       <<"conf_4h_ema50", 5>>, <<"conf_2h_ema50", 5>>, <<"conf_d_fib", 5>>,
       <<"conf_4h_fib", 5>>, <<"conf_2h_fib", 5>>, <<"conf_d_hs", 5>>,
       <<"conf_4h_hs", 5>>, <<"conf_2h_hs", 5>> >>

RECURSIVE SumPoints(_, _)
SumPoints(items, i) ==
    IF i > Len(items) THEN 0 ELSE items[i][2] + SumPoints(items, i + 1)

MAX_SCORE == SumPoints(CHECKLIST_ITEMS, 1)

\* dict.get(key) on a checklist dict: a missing key reads as falsy
Get(selected, key) == IF key \in DOMAIN selected THEN selected[key] ELSE FALSE

\* a calc_score without the exclusivity rule
ExclusiveOff(selected) == selected

\* the in-place rule of calc_score: aoi_plus supersedes aoi_valid
Exclusive(selected) ==
    IF Get(selected, "aoi_valid") /\ Get(selected, "aoi_plus")
    THEN [selected EXCEPT !["aoi_valid"] = FALSE]
    ELSE selected

RECURSIVE ScoreFrom(_, _)
ScoreFrom(selected, i) ==
    IF i > Len(CHECKLIST_ITEMS) THEN [total |-> 0, breakdown |-> << >>]
    ELSE LET rest == ScoreFrom(selected, i + 1)
             item == CHECKLIST_ITEMS[i]
         IN IF Get(selected, item[1])
            THEN [total |-> item[2] + rest.total,
                  breakdown |-> << item >> \o rest.breakdown]
            ELSE rest

\* a calc_score that counts the points missing from the maximum as a deduction
calc_scoreDeducts(selected) ==
    LET sel == Exclusive(selected)
        r == ScoreFrom(sel, 1)
    IN [total |-> r.total - MAX_SCORE, breakdown |-> r.breakdown, selected |-> sel]

\* calc_score: the total, the breakdown, and the dict as calc_score leaves it
calc_score(selected) ==
    LET sel == Exclusive(selected)
        r == ScoreFrom(sel, 1)
    IN [total |-> r.total, breakdown |-> r.breakdown, selected |-> sel]

(***************************************************************************)
(* Text conversions                                                        *)
(***************************************************************************)
\* str.upper() on the texts the model sends (the others hold no lower case)
Upper(text) ==
    CASE text = "eurusd" -> "EURUSD"
      [] text = "win" -> "WIN"
      [] text = "maybe" -> "MAYBE"
      [] text = "tp hit" -> "TP HIT"
      [] OTHER -> text

\* str.lower() on the button arguments the model sends
Lower(text) ==
    CASE text = "WEEK" -> "week"
      [] text = "MONTH" -> "month"
      [] OTHER -> text

\* float(text): the number in units of 1/10000, None when float() raises
ParseFloat(text) ==
    CASE text = "1.1000" -> Some(11000)
      [] text = "1.0" -> Some(10000)
      [] text = "0" -> Some(0)
      [] text = "-1.0" -> Some(-10000)
      [] text = "1.0950" -> Some(10950)
      [] text = "1.1100" -> Some(11100)
      [] text = "1.1050" -> Some(11050)
      [] OTHER -> None

\* parse_datetime: strptime against DATEFMT, localized; None when it raises
parse_datetime(text) ==
    CASE text = "2025-01-01 09:00" -> Some(0)
      [] text = "2025-01-01 11:30" -> Some(9000)
      [] text = "2025-01-01 12:00" -> Some(10800)
      [] text = "2024-01-03 09:00" -> Some(-31449600)
      [] OTHER -> None

\* The calendar behind datetime: second 0 of the clock is 2025-01-01 09:00, a
\* Wednesday; a day number counts days from 2025-01-01.
ClockStart == 32400

DayOf(t) == (t + ClockStart) \div 86400

Years == {2023, 2024, 2025, 2026}

\* the day number of 1 January
YearStart(y) ==
    CASE y = 2023 -> -731
      [] y = 2024 -> -366
      [] y = 2025 -> 0
      [] y = 2026 -> 365
      [] OTHER -> 730

YearOfDay(day) == CHOOSE y \in Years : YearStart(y) <= day /\ day < YearStart(y + 1)

\* date.isoweekday(): Monday is 1
IsoWeekday(day) == ((day + 2) % 7) + 1

\* the days before each month in a year of 365 days
MonthStarts == <<0, 31, 59, 90, 120, 151, 181, 212, 243, 273, 304, 334>>

\* datetime.month
MonthOf(t) ==
    LET y == YearOfDay(DayOf(t))
        doy == DayOf(t) - YearStart(y)
        leap == IF y = 2024 THEN 1 ELSE 0
    IN Cardinality({m \in 1..12 : MonthStarts[m] + (IF m > 2 THEN leap ELSE 0) <= doy})

\* datetime.year
YearOf(t) == YearOfDay(DayOf(t))

\* datetime.isocalendar(): the ISO year and week are those of the Thursday of
\* the date's week
isocalendar(t) ==
    LET day == DayOf(t)
        thursday == day - IsoWeekday(day) + 4
        y == YearOfDay(thursday)
    IN [year |-> y, week |-> (thursday - YearStart(y)) \div 7 + 1,
        weekday |-> IsoWeekday(day)]

\* the period test of the summary and of the stats: a row stays unless the
\* period is week and the ISO week numbers differ, or the period is month
\* and the year or the month differs
InPeriod(period, close_ts, t) ==
    /\ ~(period = "week" /\ isocalendar(close_ts).week # isocalendar(t).week)
    /\ ~(period = "month" /\ (YearOf(close_ts) # YearOf(t) \/ MonthOf(close_ts) # MonthOf(t)))

\* the rows a summary or the stats of a period count; a row whose close_ts
\* cannot be read is skipped
FilterPeriod(rows, period, t) ==
    SelectSeq(rows, LAMBDA r : ~IsNone(r.close_ts) /\ InPeriod(period, Val(r.close_ts), t))

\* generate_trade_id: TRD-<SYMBOL upper>-<second of now>
generate_trade_id(symbol, t) == [sym |-> Upper(symbol), ts |-> t]

NoTid == [sym |-> NoStr, ts |-> 0]

\* a pretty_duration that renders every component, zero or not
pretty_durationFull(open_ts, close_ts) ==
    LET delta == close_ts - open_ts
        days == delta \div 86400
        secs == delta % 86400
        hours == secs \div 3600
        mins == (secs % 3600) \div 60
    IN ToString(days) \o "d " \o ToString(hours) \o "h " \o ToString(mins) \o "m"

\* pretty_duration on a difference in seconds (timedelta keeps 0 <= seconds < 86400)
pretty_duration(open_ts, close_ts) ==
    LET delta == close_ts - open_ts
        days == delta \div 86400
        secs == delta % 86400
        hours == secs \div 3600
        mins == (secs % 3600) \div 60
        pd == IF days # 0 THEN << ToString(days) \o "d" >> ELSE << >>
        ph == IF hours # 0 THEN << ToString(hours) \o "h" >> ELSE << >>
        pm == IF mins # 0 THEN << ToString(mins) \o "m" >> ELSE << >>
        parts == pd \o ph \o pm
    IN CASE Len(parts) = 0 -> "0m"
         [] Len(parts) = 1 -> parts[1]
         [] Len(parts) = 2 -> parts[1] \o " " \o parts[2]
         [] OTHER -> parts[1] \o " " \o parts[2] \o " " \o parts[3]

(***************************************************************************)
(* context.user_data                                                       *)
(***************************************************************************)
\* user_data after clear(): no key is set
EmptyDraft ==
    [mode |-> NoStr, symbol |-> NoStr, side |-> NoStr,
     checklist |-> None, score |-> None, score_breakdown |-> None,
     entry |-> None, lot |-> None, sl |-> None, tp |-> None,
     pending_row |-> None, trade_id_pending |-> None,
     entry_pending |-> None, sl_pending |-> None, tp_pending |-> None,
     lot_pending |-> None, open_ts_pending |-> None,
     score_pending |-> None, score_breakdown_pending |-> None,
     exit |-> None, open_ts |-> None, close_ts |-> None,
     reason |-> NoStr, result |-> NoStr, pnl |-> NoStr, photos |-> None,
     risk_balance |-> None, risk_pct |-> None, risk_sl |-> None]

\* context.user_data.clear()
Clear(d) == EmptyDraft

(***************************************************************************)
(* The two tables                                                          *)
(***************************************************************************)
\* SELECT * FROM pending_trades WHERE trade_id=? LIMIT 1
SelectByTradeId(rows, tid) ==
    LET hits == SelectSeq(rows, LAMBDA r : r.trade_id = tid)
    IN IF hits = << >> THEN None ELSE Some(hits[1])

\* SELECT * FROM pending_trades WHERE symbol=? ORDER BY id DESC LIMIT 1
SelectLatestBySymbol(rows, symbol) ==
    LET hits == SelectSeq(rows, LAMBDA r : r.symbol = symbol)
    IN IF hits = << >> THEN None ELSE Some(hits[Len(hits)])

\* DELETE FROM <table> WHERE trade_id=?
DeleteWhereTradeId(rows, tid) == SelectSeq(rows, LAMBDA r : r.trade_id # tid)

\* INSERT INTO <table> ... : the new row gets the next rowid
InsertRow(rows, row) == Append(rows, row)

TradeIdsOf(rows) == {rows[i].trade_id : i \in DOMAIN rows}

\* a rollback that leaves the statements already executed in place
RollbackKeepsWorking(committed, working) == working

\* conn.rollback(): the uncommitted statements of the connection are undone
Rollback(committed, working) == committed

\* what a handler hands back: the user's user_data, the tables, the reply sent,
\* the trade id it worked on, whether that id was in pending_trades when the
\* handler started, the number of journal posts it attempted, and the store
\* statement that raised
Out(d, pend, clo, reply) ==
    [d |-> d, pending |-> pend, closed |-> clo, reply |-> reply,
     tid |-> NoTid, was_pending |-> FALSE, pubs |-> 0, fail |-> "none"]

OutTid(d, pend, clo, reply, tid, was, pubs) ==
    [d |-> d, pending |-> pend, closed |-> clo, reply |-> reply,
     tid |-> tid, was_pending |-> was, pubs |-> pubs, fail |-> "none"]

(***************************************************************************)
(* Close flow entry                                                        *)
(***************************************************************************)
\* a close flow that starts without keeping the row it was given
start_close_from_rowNoSnapshot(row, d, pend, clo) ==
    Out([Clear(d) EXCEPT
            !.trade_id_pending = Some(row.trade_id),
            !.symbol = row.symbol,
            !.side = row.side,
            !.entry_pending = row.entry,
            !.sl_pending = row.sl,
            !.tp_pending = row.tp,
            !.lot_pending = row.lot,
            !.open_ts_pending = row.open_ts,
            !.score_pending = row.score,
            !.score_breakdown_pending = Some(row.score_breakdown),
            !.mode = "closing_exit"],
        pend, clo, "ask_exit")

\* a close flow that takes the row out of pending_trades when it starts
start_close_from_rowTakes(row, d, pend, clo) ==
    Out([Clear(d) EXCEPT
            !.pending_row = Some(row),
            !.trade_id_pending = Some(row.trade_id),
            !.symbol = row.symbol,
            !.side = row.side,
            !.entry_pending = row.entry,
            !.sl_pending = row.sl,
            !.tp_pending = row.tp,
            !.lot_pending = row.lot,
            !.open_ts_pending = row.open_ts,
            !.score_pending = row.score,
            !.score_breakdown_pending = Some(row.score_breakdown),
            !.mode = "closing_exit"],
        DeleteWhereTradeId(pend, row.trade_id), clo, "ask_exit")

\* _start_close_from_row: snapshot the pending row into a fresh user_data
start_close_from_row(row, d, pend, clo) ==
    Out([Clear(d) EXCEPT
            !.pending_row = Some(row),
            !.trade_id_pending = Some(row.trade_id),
            !.symbol = row.symbol,
            !.side = row.side,
            !.entry_pending = row.entry,
            !.sl_pending = row.sl,
            !.tp_pending = row.tp,
            !.lot_pending = row.lot,
            !.open_ts_pending = row.open_ts,
            !.score_pending = row.score,
            !.score_breakdown_pending = Some(row.score_breakdown),
            !.mode = "closing_exit"],
        pend, clo, "ask_exit")

(***************************************************************************)
(* Commands.  args is the sequence of words after the command.             *)
(***************************************************************************)
start_cmd(d, args, pend, clo) ==
    IF args = << >> THEN Out(d, pend, clo, "usage_start")
    ELSE Out([Clear(d) EXCEPT !.symbol = Upper(args[1]),
                              !.mode = "await_direction_for_check"],
             pend, clo, "choose_direction")

pending_cmd(d, pend, clo) ==
    IF pend = << >> THEN Out(d, pend, clo, "no_pending")
    ELSE Out(d, pend, clo, "pending_list")

closed_cmd(d, pend, clo) ==
    IF clo = << >> THEN Out(d, pend, clo, "no_closed")
    ELSE Out(d, pend, clo, "closed_list")

close_cmd(d, args, pend, clo) ==
    IF args = << >>
    THEN IF pend = << >> THEN Out(d, pend, clo, "no_pending_to_close")
         ELSE Out(d, pend, clo, "select_pending")
    ELSE LET row == SelectLatestBySymbol(pend, Upper(args[1]))
         IN IF IsNone(row) THEN Out(d, pend, clo, "not_found")
            ELSE start_close_from_row(Val(row), d, pend, clo)

\* _compute_and_send_summary, called with update.message
compute_and_send_summary(d, period, pend, clo, t) ==
    IF clo = << >> THEN Out(d, pend, clo, "no_closed")
    ELSE IF FilterPeriod(clo, period, t) = << >> THEN Out(d, pend, clo, "no_trades_for_period")
    ELSE Out(d, pend, clo, "summary")

\* _compute_and_send_stats, called from the STAT|WEEK and STAT|MONTH buttons
compute_and_send_stats(d, period, pend, clo, t) ==
    IF clo = << >> THEN Out(d, pend, clo, "no_closed")
    ELSE IF FilterPeriod(clo, period, t) = << >> THEN Out(d, pend, clo, "no_trades_for_period")
    ELSE Out(d, pend, clo, "stats")

summary_cmd(d, args, pend, clo, t) ==
    IF args = << >> THEN Out(d, pend, clo, "choose_summary")
    ELSE LET period == CASE args[1] \in {"week", "w"} -> "week"
                         [] args[1] \in {"month", "m"} -> "month"
                         [] OTHER -> "all"
         IN compute_and_send_summary(d, period, pend, clo, t)

stat_cmd(d, pend, clo) == Out(d, pend, clo, "choose_stat")

\* delete_cmd and _handle_delete_with_arg
delete_cmd(d, args, pend, clo) ==
    IF args = << >> THEN Out(d, pend, clo, "choose_delete")
    ELSE IF args[1] = "pending"
         THEN IF pend = << >> THEN Out(d, pend, clo, "no_pending_to_delete")
              ELSE Out(d, pend, clo, "select_pending_delete")
    ELSE IF args[1] = "closed"
         THEN IF clo = << >> THEN Out(d, pend, clo, "no_closed_to_delete")
              ELSE Out(d, pend, clo, "select_closed_delete")
    ELSE Out(d, pend, clo, "usage_delete")

risk_cmd(d, args, pend, clo) ==
    IF args = << >>
    THEN Out([Clear(d) EXCEPT !.mode = "risk_ask_balance"], pend, clo, "ask_balance")
    ELSE IF Len(args) < 3 \/ \E i \in 1..3 : IsNone(ParseFloat(args[i]))
         THEN Out(d, pend, clo, "usage_risk")
         ELSE Out(d, pend, clo, "risk_result")

(***************************************************************************)
(* callback_query_router.  data is the button token: its kind, its         *)
(* argument, and the trade id it carries (NoTid when it carries none).     *)
(***************************************************************************)
\* a DEL_PENDING that raises when the DELETE matched no row
DelPendingStrict(d, tid, pend, clo) ==
    IF tid \in TradeIdsOf(pend)
    THEN OutTid(d, DeleteWhereTradeId(pend, tid), clo, "pending_deleted", tid, TRUE, 0)
    ELSE OutTid(d, pend, clo, "exception", tid, FALSE, 0)

\* DEL_PENDING|tid: the DELETE is committed and reported whether or not it
\* matched a row
DelPending(d, tid, pend, clo) ==
    OutTid(d, DeleteWhereTradeId(pend, tid), clo, "pending_deleted",
           tid, tid \in TradeIdsOf(pend), 0)

\* a TOGGLE that only ever selects
ToggleSelects(d, key) ==
    LET sel == IF IsNone(d.checklist) THEN << >> ELSE Val(d.checklist)
        new == [k \in (DOMAIN sel) \cup {key} |-> IF k = key THEN TRUE ELSE sel[k]]
    IN [d EXCEPT !.checklist = Some(new)]

\* TOGGLE|key
Toggle(d, key) ==
    LET sel == IF IsNone(d.checklist) THEN << >> ELSE Val(d.checklist)
        new == [k \in (DOMAIN sel) \cup {key} |->
                   IF k = key THEN ~Get(sel, key) ELSE sel[k]]
    IN [d EXCEPT !.checklist = Some(new)]

\* DONE: calc_score on the dict held in user_data (which it may change in place)
ChecklistDone(d) ==
    LET sel == IF IsNone(d.checklist) THEN << >> ELSE Val(d.checklist)
        r == calc_score(sel)
    IN [d EXCEPT !.checklist = IF IsNone(d.checklist) THEN None ELSE Some(r.selected),
                 !.score = Some(r.total),
                 !.score_breakdown = Some(r.breakdown)]

callback_query_router(d, data, pend, clo, t) ==
    CASE data.kind = "START" /\ data.arg = "CHECK" ->
            Out([Clear(d) EXCEPT !.mode = "checking_pair"], pend, clo, "ask_pair_check")
      [] data.kind = "START" /\ data.arg = "CLOSE" ->
            Out([Clear(d) EXCEPT !.mode = "closing_pair"], pend, clo, "ask_pair_close")
      [] data.kind = "CHECK|DIR" ->
            Out([d EXCEPT !.side = data.arg, !.checklist = Some(<< >>)],
                pend, clo, "select_checklist")
      [] data.kind = "TOGGLE" -> Out(Toggle(d, data.arg), pend, clo, "checklist_kb")
      [] data.kind = "RESET" ->
            Out([d EXCEPT !.checklist = Some(<< >>)], pend, clo, "checklist_kb")
      [] data.kind = "DONE" -> Out(ChecklistDone(d), pend, clo, "score_shown")
      [] data.kind = "TAKE" ->
            IF data.arg = "YES"
            THEN Out([d EXCEPT !.mode = "await_entry_open"], pend, clo, "ask_entry")
            ELSE Out(Clear(d), pend, clo, "discarded")
      [] data.kind = "CLOSE_SEL" ->
            LET row == SelectByTradeId(pend, data.tid)
            IN IF IsNone(row) THEN Out(d, pend, clo, "not_found")
               ELSE start_close_from_row(Val(row), d, pend, clo)
      [] data.kind = "DELETE" /\ data.arg = "PENDING" ->
            IF pend = << >> THEN Out(d, pend, clo, "no_pending_to_delete")
            ELSE Out(d, pend, clo, "select_pending_delete")
      [] data.kind = "DELETE" /\ data.arg = "CLOSED" ->
            IF clo = << >> THEN Out(d, pend, clo, "no_closed_to_delete")
            ELSE Out(d, pend, clo, "select_closed_delete")
      [] data.kind = "DEL_PENDING" -> DelPending(d, data.tid, pend, clo)
      [] data.kind = "DEL_CLOSED" ->
            OutTid(d, pend, DeleteWhereTradeId(clo, data.tid), "closed_deleted",
                   data.tid, data.tid \in TradeIdsOf(pend), 0)
      [] data.kind = "SUMMARY" ->
            \* _compute_and_send_summary replies through update.message, which a
            \* button press does not carry: its first reply raises
            IF Lower(data.arg) \in {"week", "month"}
            THEN Out(d, pend, clo, "exception")
            ELSE Out(d, pend, clo, "unknown_choice")
      [] data.kind = "STAT" ->
            IF Lower(data.arg) \in {"week", "month"}
            THEN compute_and_send_stats(d, Lower(data.arg), pend, clo, t)
            ELSE Out(d, pend, clo, "unknown_choice")
      [] OTHER -> Out(d, pend, clo, "ignored")

(***************************************************************************)
(* finalize_closing                                                        *)
(***************************************************************************)
\* the backfill loop over the required keys: only lot and open_ts are filled
Backfill(d) ==
    IF IsNone(d.pending_row) THEN d
    ELSE [d EXCEPT
            !.lot = IF IsNone(d.lot) /\ ~IsNone(d.lot_pending) THEN d.lot_pending ELSE d.lot,
            !.open_ts = IF IsNone(d.open_ts) THEN d.open_ts_pending ELSE d.open_ts]

\* a closed row stamped with the time of the close instead of the stored one
ClosedRecordOpenNow(u, d, t) ==
    LET open_ts == IF IsNone(d.open_ts) THEN t ELSE Val(d.open_ts)
        close_ts == IF IsNone(d.close_ts) THEN t ELSE Val(d.close_ts)
        duration == pretty_duration(open_ts, close_ts)
        photos == IF IsNone(d.photos) THEN << >> ELSE Val(d.photos)
        tail == [exit |-> d.exit, close_ts |-> d.close_ts, duration |-> duration,
                 reason |-> d.reason, result |-> d.result, pnl |-> d.pnl,
                 photos |-> photos]
    IN IF ~IsNone(d.pending_row)
       THEN LET row == Val(d.pending_row)
            IN [trade_id |-> row.trade_id, user_id |-> row.user_id,
                symbol |-> row.symbol, side |-> row.side, entry |-> row.entry,
                sl |-> row.sl, tp |-> row.tp, lot |-> row.lot,
                open_ts |-> Some(t), score |-> row.score,
                score_breakdown |-> row.score_breakdown] @@ tail
       ELSE [trade_id |-> IF IsNone(d.trade_id_pending)
                          THEN generate_trade_id(IF d.symbol = NoStr THEN "UNK" ELSE d.symbol, t)
                          ELSE Val(d.trade_id_pending),
             user_id |-> u, symbol |-> d.symbol, side |-> d.side,
             entry |-> d.entry_pending, sl |-> d.sl_pending, tp |-> d.tp_pending,
             lot |-> d.lot, open_ts |-> d.open_ts,
             score |-> IF IsNone(d.score_pending) THEN d.score ELSE d.score_pending,
             score_breakdown |->
                 IF ~IsNone(d.score_breakdown_pending) THEN Val(d.score_breakdown_pending)
                 ELSE IF ~IsNone(d.score_breakdown) THEN Val(d.score_breakdown)
                 ELSE << >>] @@ tail

\* the row written to closed_trades: the core columns come from the snapshot
\* row when there is one, from user_data otherwise
ClosedRecord(u, d, t) ==
    LET open_ts == IF IsNone(d.open_ts) THEN t ELSE Val(d.open_ts)
        close_ts == IF IsNone(d.close_ts) THEN t ELSE Val(d.close_ts)
        duration == pretty_duration(open_ts, close_ts)
        photos == IF IsNone(d.photos) THEN << >> ELSE Val(d.photos)
        tail == [exit |-> d.exit, close_ts |-> d.close_ts, duration |-> duration,
                 reason |-> d.reason, result |-> d.result, pnl |-> d.pnl,
                 photos |-> photos]
    IN IF ~IsNone(d.pending_row)
       THEN LET row == Val(d.pending_row)
            IN [trade_id |-> row.trade_id, user_id |-> row.user_id,
                symbol |-> row.symbol, side |-> row.side, entry |-> row.entry,
                sl |-> row.sl, tp |-> row.tp, lot |-> row.lot,
                open_ts |-> row.open_ts, score |-> row.score,
                score_breakdown |-> row.score_breakdown] @@ tail
       ELSE [trade_id |-> IF IsNone(d.trade_id_pending)
                          THEN generate_trade_id(IF d.symbol = NoStr THEN "UNK" ELSE d.symbol, t)
                          ELSE Val(d.trade_id_pending),
             user_id |-> u, symbol |-> d.symbol, side |-> d.side,
             entry |-> d.entry_pending, sl |-> d.sl_pending, tp |-> d.tp_pending,
             lot |-> d.lot, open_ts |-> d.open_ts,
             score |-> IF IsNone(d.score_pending) THEN d.score ELSE d.score_pending,
             score_breakdown |->
                 IF ~IsNone(d.score_breakdown_pending) THEN Val(d.score_breakdown_pending)
                 ELSE IF ~IsNone(d.score_breakdown) THEN Val(d.score_breakdown)
                 ELSE << >>] @@ tail

\* the store move without its DELETE FROM pending_trades
MoveToClosedNoDelete(db, rec, fail) ==
    LET afterInsert == [pending |-> db.pending, closed |-> InsertRow(db.closed, rec)]
    IN IF fail # "none" \/ IsNone(rec.exit)
       THEN [ok |-> FALSE, db |-> db, fail |-> IF fail = "none" THEN "insert" ELSE fail]
       ELSE [ok |-> TRUE, db |-> afterInsert, fail |-> "none"]

\* the try block: INSERT INTO closed_trades, DELETE FROM pending_trades, commit.
\* fail names the statement that raises ("none": all three succeed); a missing
\* exit makes float() raise before the INSERT runs.
MoveToClosed(db, rec, fail) ==
    LET afterInsert == [pending |-> db.pending, closed |-> InsertRow(db.closed, rec)]
        afterDelete == [pending |-> DeleteWhereTradeId(db.pending, rec.trade_id),
                        closed |-> afterInsert.closed]
    IN CASE fail = "insert" \/ IsNone(rec.exit) ->
                [ok |-> FALSE, db |-> Rollback(db, db), fail |-> "insert"]
         [] fail = "delete" -> [ok |-> FALSE, db |-> Rollback(db, afterInsert), fail |-> fail]
         [] fail = "commit" -> [ok |-> FALSE, db |-> Rollback(db, afterDelete), fail |-> fail]
         [] OTHER -> [ok |-> TRUE, db |-> afterDelete, fail |-> "none"]

\* a post failure that returns before user_data is cleared
PublishStepKeepsDraft(d, db, tid, was, posted) ==
    IF posted
    THEN OutTid(Clear(d), db.pending, db.closed, "closed_ok", tid, was, 1)
    ELSE OutTid(d, db.pending, db.closed, "publish_failed", tid, was, 1)

\* a post failure that takes the closed row out again
PublishStepUndoes(d, db, tid, was, posted) ==
    IF posted
    THEN OutTid(Clear(d), db.pending, db.closed, "closed_ok", tid, was, 1)
    ELSE OutTid(Clear(d), db.pending, DeleteWhereTradeId(db.closed, tid),
                "publish_failed", tid, was, 1)

\* after the commit: post to the journal channel once, then clear user_data
PublishStep(d, db, tid, was, posted) ==
    IF posted
    THEN OutTid(Clear(d), db.pending, db.closed, "closed_ok", tid, was, 1)
    ELSE OutTid(Clear(d), db.pending, db.closed, "publish_failed", tid, was, 1)

\* an except branch of the store move that also drops the draft
StoreFailedClears(d, db, tid, was, fail) ==
    [OutTid(Clear(d), db.pending, db.closed, "store_failed", tid, was, 0) EXCEPT !.fail = fail]

\* an except branch of the store move that still posts to the journal
StoreFailedPosts(d, db, tid, was, fail) ==
    [OutTid(d, db.pending, db.closed, "store_failed", tid, was, 1) EXCEPT !.fail = fail]

\* the except branch of the store move: reply and return
StoreFailed(d, db, tid, was, fail) ==
    [OutTid(d, db.pending, db.closed, "store_failed", tid, was, 0) EXCEPT !.fail = fail]

finalize_closing(u, d, pend, clo, t, fail, posted) ==
    LET d1 == Backfill(d)
        rec == ClosedRecord(u, d1, t)
        was == rec.trade_id \in TradeIdsOf(pend)
        moved == MoveToClosed([pending |-> pend, closed |-> clo], rec, fail)
    IN IF moved.ok
       THEN PublishStep(d1, moved.db, rec.trade_id, was, posted)
       ELSE StoreFailed(d1, moved.db, rec.trade_id, was, moved.fail)

(***************************************************************************)
(* text_router                                                             *)
(***************************************************************************)
IsNoneWord(text) == Upper(text) \in {"NONE", "N"}

\* an entry branch that moves on before it has validated the text
AwaitEntryOpenEager(d, text) ==
    LET v == ParseFloat(text)
    IN IF IsNone(v) THEN [d |-> [d EXCEPT !.mode = "await_lot_open"], reply |-> "invalid_entry"]
       ELSE [d |-> [d EXCEPT !.entry = v, !.mode = "await_lot_open"], reply |-> "ask_lot"]

AwaitEntryOpen(d, text) ==
    LET v == ParseFloat(text)
    IN IF IsNone(v) THEN [d |-> d, reply |-> "invalid_entry"]
       ELSE [d |-> [d EXCEPT !.entry = v, !.mode = "await_lot_open"], reply |-> "ask_lot"]

AwaitLotOpen(d, text) ==
    LET v == ParseFloat(text)
    IN IF IsNone(v) THEN [d |-> d, reply |-> "invalid_lot"]
       ELSE [d |-> [d EXCEPT !.lot = v, !.mode = "await_sl_open"], reply |-> "ask_sl"]

AwaitSlOpen(d, text) ==
    LET v == ParseFloat(text)
    IN IF IsNoneWord(text)
       THEN [d |-> [d EXCEPT !.sl = None, !.mode = "await_tp_open"], reply |-> "ask_tp"]
       ELSE IF IsNone(v) THEN [d |-> d, reply |-> "invalid_sl"]
       ELSE [d |-> [d EXCEPT !.sl = v, !.mode = "await_tp_open"], reply |-> "ask_tp"]

\* the first half of the await_tp_open branch: store tp or reject the text
AwaitTpOpen(d, text) ==
    LET v == ParseFloat(text)
    IN IF IsNoneWord(text) THEN [d |-> [d EXCEPT !.tp = None], reply |-> "save"]
       ELSE IF IsNone(v) THEN [d |-> d, reply |-> "invalid_tp"]
       ELSE [d |-> [d EXCEPT !.tp = v], reply |-> "save"]

\* a row whose sl and tp columns are bound the other way round
PendingRecordSwapped(u, d, t) ==
    [user_id |-> u,
     trade_id |-> generate_trade_id(IF d.symbol = NoStr THEN "UNK" ELSE d.symbol, t),
     symbol |-> d.symbol, side |-> d.side,
     entry |-> d.entry, sl |-> d.tp, tp |-> d.sl, lot |-> d.lot,
     open_ts |-> Some(t),
     score |-> IF IsNone(d.score) THEN Some(0) ELSE d.score,
     score_breakdown |-> IF IsNone(d.score_breakdown) THEN << >> ELSE Val(d.score_breakdown)]

\* the row written to pending_trades
PendingRecord(u, d, t) ==
    [user_id |-> u,
     trade_id |-> generate_trade_id(IF d.symbol = NoStr THEN "UNK" ELSE d.symbol, t),
     symbol |-> d.symbol, side |-> d.side,
     entry |-> d.entry, sl |-> d.sl, tp |-> d.tp, lot |-> d.lot,
     open_ts |-> Some(t),
     score |-> IF IsNone(d.score) THEN Some(0) ELSE d.score,
     score_breakdown |-> IF IsNone(d.score_breakdown) THEN << >> ELSE Val(d.score_breakdown)]

\* the second half of the await_tp_open branch: INSERT INTO pending_trades.
\* float(None) and a trade_id already in the table (UNIQUE) raise out of the
\* handler: nothing is committed, no reply is sent, user_data is not cleared.
SavePending(u, d, pend, clo, t) ==
    LET row == PendingRecord(u, d, t)
        was == row.trade_id \in TradeIdsOf(pend)
    IN IF IsNone(d.entry) \/ IsNone(d.lot) \/ was
       THEN OutTid(d, pend, clo, "exception", row.trade_id, was, 0)
       ELSE OutTid(Clear(d), InsertRow(pend, row), clo, "saved", row.trade_id, was, 0)

ClosingExit(d, text) ==
    LET v == ParseFloat(text)
    IN IF IsNone(v) THEN [d |-> d, reply |-> "invalid_exit"]
       ELSE IF ~IsNone(d.lot_pending)
            THEN [d |-> [d EXCEPT !.exit = v, !.lot = d.lot_pending,
                                  !.mode = "closing_open_ts"],
                  reply |-> "ask_open_ts"]
            ELSE [d |-> [d EXCEPT !.exit = v, !.mode = "closing_lot"], reply |-> "ask_lot"]

ClosingLot(d, text) ==
    LET v == ParseFloat(text)
    IN IF IsNone(v) THEN [d |-> d, reply |-> "invalid_lot"]
       ELSE [d |-> [d EXCEPT !.lot = v, !.mode = "closing_open_ts"], reply |-> "ask_open_ts"]

\* SAME reads the stored stamp back (now when it cannot be read)
ClosingOpenTs(d, text, t) ==
    LET parsed == parse_datetime(text)
    IN IF Upper(text) = "SAME"
       THEN [d |-> [d EXCEPT !.open_ts = IF IsNone(d.open_ts_pending) THEN Some(t)
                                         ELSE d.open_ts_pending,
                             !.mode = "closing_close_ts"],
             reply |-> "ask_close_ts"]
       ELSE IF IsNone(parsed) THEN [d |-> d, reply |-> "bad_datetime"]
       ELSE [d |-> [d EXCEPT !.open_ts = parsed, !.mode = "closing_close_ts"],
             reply |-> "ask_close_ts"]

ClosingCloseTs(d, text) ==
    LET parsed == parse_datetime(text)
    IN IF IsNone(parsed) THEN [d |-> d, reply |-> "bad_datetime"]
       ELSE [d |-> [d EXCEPT !.close_ts = parsed, !.mode = "closing_reason"],
             reply |-> "ask_reason"]

\* a reason step that goes straight to the photos
ClosingReasonSkips(d, text) ==
    [d |-> [d EXCEPT !.reason = text, !.mode = "closing_photos", !.photos = Some(<< >>)],
     reply |-> "ask_photos"]

ClosingReason(d, text) ==
    [d |-> [d EXCEPT !.reason = text, !.mode = "closing_result"], reply |-> "ask_result"]

ClosingResult(d, text) ==
    [d |-> [d EXCEPT !.result = Upper(text), !.mode = "closing_pnl"], reply |-> "ask_pnl"]

ClosingPnl(d, text) ==
    [d |-> [d EXCEPT !.pnl = text, !.mode = "closing_photos", !.photos = Some(<< >>)],
     reply |-> "ask_photos"]

\* the interactive risk flow: three numbers, then the pair
RiskAsk(d, text) ==
    LET v == ParseFloat(text)
    IN CASE d.mode = "risk_ask_balance" ->
              IF IsNone(v) THEN [d |-> d, reply |-> "invalid_balance"]
              ELSE [d |-> [d EXCEPT !.risk_balance = v, !.mode = "risk_ask_pct"],
                    reply |-> "ask_pct"]
         [] d.mode = "risk_ask_pct" ->
              IF IsNone(v) THEN [d |-> d, reply |-> "invalid_pct"]
              ELSE [d |-> [d EXCEPT !.risk_pct = v, !.mode = "risk_ask_sl"],
                    reply |-> "ask_sl_pips"]
         [] d.mode = "risk_ask_sl" ->
              IF IsNone(v) THEN [d |-> d, reply |-> "invalid_pips"]
              ELSE [d |-> [d EXCEPT !.risk_sl = v, !.mode = "risk_ask_pair"],
                    reply |-> "ask_risk_pair"]
         [] OTHER -> [d |-> Clear(d), reply |-> "risk_result"]

CheckingPair(d, text) ==
    [d |-> [d EXCEPT !.symbol = Upper(text), !.mode = "await_direction_for_check"],
     reply |-> "choose_direction"]

ClosingPair(d, text, pend, clo) ==
    LET row == SelectLatestBySymbol(pend, Upper(text))
    IN IF IsNone(row) THEN Out(Clear(d), pend, clo, "not_found")
       ELSE start_close_from_row(Val(row), d, pend, clo)

RiskModes == {"risk_ask_balance", "risk_ask_pct", "risk_ask_sl", "risk_ask_pair"}

\* text_router: the branch is chosen by the mode held in user_data
text_router(u, d, text, pend, clo, t, fail, posted) ==
    LET lift(r) == Out(r.d, pend, clo, r.reply)
    IN CASE d.mode = "await_entry_open" -> lift(AwaitEntryOpen(d, text))
         [] d.mode = "await_lot_open" -> lift(AwaitLotOpen(d, text))
         [] d.mode = "await_sl_open" -> lift(AwaitSlOpen(d, text))
         [] d.mode = "await_tp_open" ->
              LET r == AwaitTpOpen(d, text)
              IN IF r.reply = "save" THEN SavePending(u, r.d, pend, clo, t) ELSE lift(r)
         [] d.mode = "closing_exit" -> lift(ClosingExit(d, text))
         [] d.mode = "closing_lot" -> lift(ClosingLot(d, text))
         [] d.mode = "closing_open_ts" -> lift(ClosingOpenTs(d, text, t))
         [] d.mode = "closing_close_ts" -> lift(ClosingCloseTs(d, text))
         [] d.mode = "closing_reason" -> lift(ClosingReason(d, text))
         [] d.mode = "closing_result" -> lift(ClosingResult(d, text))
         [] d.mode = "closing_pnl" -> lift(ClosingPnl(d, text))
         [] d.mode = "closing_photos" /\ Upper(text) = "DONE" ->
              finalize_closing(u, d, pend, clo, t, fail, posted)
         [] d.mode \in RiskModes -> lift(RiskAsk(d, text))
         [] d.mode = "checking_pair" -> lift(CheckingPair(d, text))
         [] d.mode = "closing_pair" -> ClosingPair(d, text, pend, clo)
         [] OTHER -> Out(d, pend, clo, "not_understood")

(***************************************************************************)
(* photo_handler                                                           *)
(***************************************************************************)
photo_handler(u, d, fid, caption, pend, clo, t, fail, posted) ==
    IF d.mode = "closing_photos"
    THEN LET photos == IF IsNone(d.photos) THEN << >> ELSE Val(d.photos)
             d1 == [d EXCEPT !.photos = Some(Append(photos, fid))]
         IN IF Upper(caption) = "DONE"
            THEN finalize_closing(u, d1, pend, clo, t, fail, posted)
            ELSE Out(d1, pend, clo, "photo_saved")
    ELSE Out(d, pend, clo, "photo_unexpected")

(***************************************************************************)
(* The updates the model sends                                             *)
(***************************************************************************)
\* the texts tried in each mode: the expected reply, and DONE, which no
\* numeric or date-time mode accepts
TextsFor(mode) ==
    CASE mode = "await_entry_open" -> {"1.1000", "DONE"}
      [] mode = "await_lot_open" -> {"1.0", "DONE"}
      [] mode = "await_sl_open" -> {"1.0950", "DONE"}
      [] mode = "await_tp_open" -> {"NONE", "DONE"}
      [] mode = "closing_exit" -> {"1.1050", "DONE"}
      [] mode = "closing_lot" -> {"1.0", "DONE"}
      [] mode = "closing_open_ts" -> {"SAME", "DONE"}
      [] mode = "closing_close_ts" -> {"2025-01-01 11:30", "DONE"}
      [] mode = "closing_reason" -> {"tp hit"}
      [] mode = "closing_result" -> {"win"}
      [] mode = "closing_pnl" -> {"1.2%"}
      [] mode = "closing_photos" -> {"DONE"}
      [] mode \in {"risk_ask_balance", "risk_ask_pct", "risk_ask_sl"} -> {"1.0", "DONE"}
      [] mode = "risk_ask_pair" -> {"SKIP"}
      [] mode \in {"checking_pair", "closing_pair"} -> {"eurusd"}
      [] OTHER -> {"DONE"}

\* further texts a user may type: a zero and a negative lot, a numeric TP, a
\* result that is none of WIN, LOSS, BE
MoreTextsFor(mode) ==
    CASE mode = "await_lot_open" -> {"0", "-1.0"}
      [] mode = "await_tp_open" -> {"1.1100"}
      [] mode = "closing_result" -> {"maybe"}
      [] OTHER -> {}

\* typed date-times: an open time later than the stored one, and a close time
\* of an earlier year, a Wednesday 52 weeks before the clock starts
DateTextsFor(mode) ==
    CASE mode = "closing_open_ts" -> {"2025-01-01 11:30"}
      [] mode = "closing_close_ts" -> {"2024-01-03 09:00"}
      [] OTHER -> {}

Button(kind, arg) == [kind |-> kind, arg |-> arg, tid |-> NoTid]
TradeButton(kind, tid) == [kind |-> kind, arg |-> "", tid |-> tid]

\* the trade ids a button on some message can carry: the ids in the tables,
\* the ids close flows hold a snapshot of, and the id of the update before
KnownIds ==
    (TradeIdsOf(pending) \cup TradeIdsOf(closed) \cup {last.tid}
        \cup {Val(ud[v].trade_id_pending) : v \in {w \in DOMAIN ud : ~IsNone(ud[w].trade_id_pending)}})
    \ {NoTid}

\* the buttons of the keyboards the bot has shown in the flow user_data is in
OfferedButtons(d) ==
    {Button("START", "CHECK"), Button("START", "CLOSE"),
     Button("DELETE", "PENDING"), Button("SUMMARY", "WEEK"), Button("STAT", "WEEK")}
    \cup (IF d.mode = "await_direction_for_check" THEN {Button("CHECK|DIR", "BUY")} ELSE {})
    \cup (IF ~IsNone(d.checklist) THEN {Button("DONE", "")} ELSE {})
    \cup (IF ~IsNone(d.score) THEN {Button("TAKE", "YES"), Button("TAKE", "NO")} ELSE {})
    \cup {TradeButton(k, t) : k \in {"CLOSE_SEL", "DEL_PENDING", "DEL_CLOSED"}, t \in KnownIds}

FailPoints == {"none", "insert", "delete", "commit"}

\* replies that only show information
InfoReplies ==
    {"usage_start", "no_pending", "pending_list", "no_closed", "closed_list",
     "no_trades_for_period", "unknown_choice",
     "no_pending_to_close", "select_pending", "choose_summary", "summary",
     "choose_stat", "stats", "choose_delete", "no_pending_to_delete",
     "select_pending_delete", "no_closed_to_delete", "select_closed_delete",
     "usage_delete", "usage_risk", "risk_result", "ignored"}

(***************************************************************************)
(* Actions: one per handler                                                *)
(***************************************************************************)
NoUpdate(op) ==
    [op |-> op, user |-> 0, text |-> "", reply |-> "", tid |-> NoTid,
     was_pending |-> FALSE, pubs |-> 0, fail |-> "none"]

Init ==
    /\ ud = [u \in Users |-> EmptyDraft]
    /\ pending = << >>
    /\ closed = << >>
    /\ now = 0
    /\ last = NoUpdate("init")
    /\ deleted = {}

\* the bounds on the tables: an update that would add a row beyond them is not sent
Fits(r, cap) ==
    /\ Len(r.pending) > Len(pending) => Len(r.pending) <= MaxPending
    /\ Len(r.closed) > Len(closed) => Len(r.closed) <= cap

\* a user_data that is one dict for all users
HandleShared(u, op, r) ==
    /\ ud' = [v \in Users |-> r.d]
    /\ pending' = r.pending
    /\ closed' = r.closed
    /\ last' = [op |-> op, user |-> u,
                text |-> IF "text" \in DOMAIN r THEN r.text ELSE "",
                reply |-> IF r.reply \in InfoReplies THEN "info" ELSE r.reply,
                tid |-> r.tid, was_pending |-> r.was_pending, pubs |-> r.pubs,
                fail |-> r.fail]
    /\ deleted' = deleted
    /\ UNCHANGED now

\* the handler's result r becomes the next state: context.user_data is the
\* dict of the user the update comes from
Handle(u, op, r) ==
    /\ ud' = [ud EXCEPT ![u] = r.d]
    /\ pending' = r.pending
    /\ closed' = r.closed
    /\ last' = [op |-> op, user |-> u,
                text |-> IF "text" \in DOMAIN r THEN r.text ELSE "",
                reply |-> IF r.reply \in InfoReplies THEN "info" ELSE r.reply,
                tid |-> r.tid, was_pending |-> r.was_pending, pubs |-> r.pubs,
                fail |-> r.fail]
    /\ deleted' =
          {t \in deleted \cup (IF r.reply = "pending_deleted" /\ r.was_pending
                               THEN {r.tid} ELSE {}) :
              /\ t \notin TradeIdsOf(r.pending)
              /\ \E v \in Users : ud'[v].trade_id_pending = Some(t)}
    /\ UNCHANGED now

StartCmd(u) ==
    \E args \in {<< >>, <<"eurusd">>} :
        Handle(u, "command", start_cmd(ud[u], args, pending, closed))

PendingCmd(u) == Handle(u, "command", pending_cmd(ud[u], pending, closed))

ClosedCmd(u) == Handle(u, "command", closed_cmd(ud[u], pending, closed))

CloseCmd(u) ==
    \E args \in {<< >>, <<"eurusd">>} :
        Handle(u, "command", close_cmd(ud[u], args, pending, closed))

SummaryCmd(u) ==
    \E args \in {<< >>, <<"week">>} :
        Handle(u, "command", summary_cmd(ud[u], args, pending, closed, now))

StatCmd(u) == Handle(u, "command", stat_cmd(ud[u], pending, closed))

DeleteCmd(u) ==
    \E args \in {<< >>, <<"pending">>} :
        Handle(u, "command", delete_cmd(ud[u], args, pending, closed))

RiskCmd(u) ==
    \E args \in {<< >>, <<"1.0", "1.0", "1.0">>} :
        Handle(u, "command", risk_cmd(ud[u], args, pending, closed))

CallbackQueryRouter(u) ==
    \E data \in OfferedButtons(ud[u]) :
        Handle(u, "callback", callback_query_router(ud[u], data, pending, closed, now))

\* the take_kb buttons of a score message of an earlier flow: the message stays
\* in the chat, with its buttons, until one of them is pressed
StaleButtons == {Button("TAKE", "YES"), Button("TAKE", "NO")}

StaleCallback(u) ==
    \E data \in StaleButtons :
        Handle(u, "callback", callback_query_router(ud[u], data, pending, closed, now))

\* the outcomes of the store and of the journal post, drawn when DONE finalizes
Outcomes(d, env) ==
    IF d.mode = "closing_photos"
    THEN {[fail |-> f, posted |-> p] : f \in env.fails, p \in env.posts}
    ELSE {[fail |-> "none", posted |-> TRUE]}

\* env: what the surroundings may do in a specification: the rows closed_trades
\* may hold, where the store may fail, whether the journal post may fail, the
\* photos one close flow is sent, whether the further texts are typed, whether
\* close times of an earlier year are typed
TextRouter(u, env) ==
    \E text \in TextsFor(ud[u].mode)
                    \cup (IF env.rich THEN MoreTextsFor(ud[u].mode) ELSE {})
                    \cup (IF env.dates THEN DateTextsFor(ud[u].mode) ELSE {}),
       o \in Outcomes(ud[u], env) :
        LET r == text_router(u, ud[u], text, pending, closed, now, o.fail, o.posted)
        IN Fits(r, env.cap) /\ Handle(u, "text", r @@ [text |-> text])

PhotoHandler(u, env) ==
    /\ ud[u].mode = "closing_photos" => Len(Val(ud[u].photos)) < env.photos
    /\ \E caption \in {"", "DONE"}, o \in Outcomes(ud[u], env) :
        LET r == photo_handler(u, ud[u], "f1", caption, pending, closed, now, o.fail, o.posted)
        IN Fits(r, env.cap) /\ Handle(u, "photo", r)

\* a second passes on the clock
Tick ==
    /\ now < MaxTick
    /\ now' = now + 1
    /\ last' = NoUpdate("tick")
    /\ UNCHANGED <<ud, pending, closed, deleted>>

\* one user sends every kind of update, in every state; the store and the
\* journal post may fail; a close flow is sent one photo at most (longer photo
\* lists are the subject of SpecPhotos)
SoloEnv ==
    [cap |-> MaxClosed, fails |-> FailPoints, posts |-> BOOLEAN,
     photos |-> 1, rich |-> FALSE, dates |-> FALSE]

Next ==
    \/ \E u \in {1} :
        \/ StartCmd(u)
        \/ PendingCmd(u)
        \/ ClosedCmd(u)
        \/ CloseCmd(u)
        \/ SummaryCmd(u)
        \/ StatCmd(u)
        \/ DeleteCmd(u)
        \/ RiskCmd(u)
        \/ CallbackQueryRouter(u)
        \/ TextRouter(u, SoloEnv)
        \/ PhotoHandler(u, SoloEnv)
    \/ Tick

Spec == Init /\ [][Next]_vars

\* two users run open and close flows side by side within one second, with a
\* store and a journal that do not fail; closed_trades may hold one row more,
\* so that a second promotion of the same trade can be seen
DuoEnv ==
    [cap |-> MaxClosed + 1, fails |-> {"none"}, posts |-> {TRUE},
     photos |-> 0, rich |-> FALSE, dates |-> FALSE]

NextDuo ==
    \E u \in Users :
        \/ StartCmd(u)
        \/ CallbackQueryRouter(u)
        \/ TextRouter(u, DuoEnv)

SpecDuo == Init /\ [][NextDuo]_vars

\* one user who also presses the buttons of old score messages; the store and
\* the journal do not fail
StaleEnv ==
    [cap |-> MaxClosed, fails |-> {"none"}, posts |-> {TRUE},
     photos |-> 0, rich |-> FALSE, dates |-> FALSE]

NextStale ==
    \E u \in {1} :
        \/ StartCmd(u)
        \/ CallbackQueryRouter(u)
        \/ StaleCallback(u)
        \/ TextRouter(u, StaleEnv)

SpecStale == Init /\ [][NextStale]_vars

\* one user who also types the further texts; the store and the journal do
\* not fail
LooseEnv ==
    [cap |-> MaxClosed, fails |-> {"none"}, posts |-> {TRUE},
     photos |-> 0, rich |-> TRUE, dates |-> FALSE]

NextLoose ==
    \E u \in {1} :
        \/ StartCmd(u)
        \/ CallbackQueryRouter(u)
        \/ TextRouter(u, LooseEnv)

SpecLoose == Init /\ [][NextLoose]_vars

\* one user who sends up to ten photos and MaxPhotos more in one close flow;
\* the store and the journal do not fail
PhotosEnv ==
    [cap |-> MaxClosed, fails |-> {"none"}, posts |-> {TRUE},
     photos |-> 10 + MaxPhotos, rich |-> FALSE, dates |-> FALSE]

NextPhotos ==
    \E u \in {1} :
        \/ StartCmd(u)
        \/ CallbackQueryRouter(u)
        \/ TextRouter(u, PhotosEnv)
        \/ PhotoHandler(u, PhotosEnv)

SpecPhotos == Init /\ [][NextPhotos]_vars

\* the checklist items whose buttons the model presses: the two AOI items,
\* which calc_score treats as exclusive
ScoreKeys == {"aoi_valid", "aoi_plus"}

\* the buttons of checklist_kb, on display from the choice of a direction
\* until DONE replaces the message by the score
ChecklistButtons(d) ==
    IF IsNone(d.checklist) \/ ~IsNone(d.score) THEN {}
    ELSE {Button("TOGGLE", k) : k \in ScoreKeys} \cup {Button("RESET", "")}

\* a press on checklist_kb; the pressed button is kept as the update's text
ChecklistCallback(u) ==
    \E data \in ChecklistButtons(ud[u]) :
        Handle(u, "callback",
               callback_query_router(ud[u], data, pending, closed, now)
                   @@ [text |-> IF data.kind = "TOGGLE" THEN data.arg ELSE data.kind])

\* one user who works the checklist before taking the trade; the store and
\* the journal do not fail
ScoreEnv ==
    [cap |-> MaxClosed, fails |-> {"none"}, posts |-> {TRUE},
     photos |-> 0, rich |-> FALSE, dates |-> FALSE]

NextScore ==
    \E u \in {1} :
        \/ StartCmd(u)
        \/ CallbackQueryRouter(u)
        \/ ChecklistCallback(u)
        \/ TextRouter(u, ScoreEnv)

SpecScore == Init /\ [][NextScore]_vars

\* one user who also types open and close times and asks for the
\* summaries; the store and the journal do not fail
DatesEnv ==
    [cap |-> MaxClosed, fails |-> {"none"}, posts |-> {TRUE},
     photos |-> 0, rich |-> FALSE, dates |-> TRUE]

NextDates ==
    \E u \in {1} :
        \/ StartCmd(u)
        \/ SummaryCmd(u)
        \/ CallbackQueryRouter(u)
        \/ TextRouter(u, DatesEnv)

SpecDates == Init /\ [][NextDates]_vars

\* one user who works the checklist and also presses the buttons of old score
\* messages; the store and the journal do not fail
NextStaleScore ==
    \E u \in {1} :
        \/ StartCmd(u)
        \/ CallbackQueryRouter(u)
        \/ ChecklistCallback(u)
        \/ StaleCallback(u)
        \/ TextRouter(u, StaleEnv)

SpecStaleScore == Init /\ [][NextStaleScore]_vars

(***************************************************************************)
(* Properties                                                              *)
(***************************************************************************)
Succeeded == {"closed_ok", "publish_failed"}

\* C1: when finalize_closing reports success for a close flow whose trade was
\* in pending_trades when it started, the trade id is afterwards in
\* closed_trades and no longer in pending_trades.
C1_FinalizeMovesTrade ==
    (last.reply \in Succeeded /\ last.was_pending)
        => (last.tid \in TradeIdsOf(closed) /\ last.tid \notin TradeIdsOf(pending))

C1_Witness == last.reply = "closed_ok" /\ last.was_pending /\ last.op = "text"

\* C2: when a statement of the store move raises (the INSERT, the DELETE or
\* the commit), both tables are exactly as they were before finalize_closing.
C2_StoreFailureKeepsTables ==
    [][last'.reply = "store_failed" => (pending' = pending /\ closed' = closed)]_vars

C2_Witness ==
    /\ last.reply = "store_failed"
    /\ last.fail = "delete"
    /\ last.tid \in TradeIdsOf(pending)

\* C3: no trade id is in pending_trades and in closed_trades at the same time.
C3_NoIdInBothTables == TradeIdsOf(pending) \cap TradeIdsOf(closed) = {}

\* C4: closed_trades never holds two rows with the same trade id.
C4_ClosedAtMostOncePerId ==
    \A i, j \in DOMAIN closed : closed[i].trade_id = closed[j].trade_id => i = j

\* C5: a DEL_PENDING of a trade and a close finalize of the same trade never
\* both report success: once the delete has removed the row a close flow holds
\* a snapshot of, finalize_closing does not report that trade closed.
C5_DeleteAndCloseExclude ==
    [][last'.reply \in Succeeded => last'.tid \notin deleted]_vars

\* the user_data a command leaves when it has reset it: empty, or holding only
\* what the flow the command starts has set
FreshDraft(d) ==
    \/ d = EmptyDraft
    \/ d = [EmptyDraft EXCEPT !.mode = "await_direction_for_check", !.symbol = d.symbol]
    \/ d = [EmptyDraft EXCEPT !.mode = "risk_ask_balance"]
    \/ /\ ~IsNone(d.pending_row)
       /\ d = start_close_from_row(Val(d.pending_row), EmptyDraft, << >>, << >>).d

\* C6: after every top-level command the user's state has been reset: nothing
\* that the flow in progress had put into user_data is still there.
C6_CommandResetsState == last.op = "command" => FreshDraft(ud[last.user])

NumericModes ==
    {"await_entry_open", "await_lot_open", "await_sl_open", "await_tp_open",
     "closing_exit", "closing_lot", "closing_open_ts", "closing_close_ts"}

InvalidReplies ==
    {"invalid_entry", "invalid_lot", "invalid_sl", "invalid_tp", "invalid_exit",
     "bad_datetime"}

\* C7: in a mode that awaits a number or a date-time, a text that fails the
\* validation leaves user_data (mode and every field) and both tables unchanged.
C7_InvalidInputChangesNothing ==
    [][(/\ last'.op = "text"
        /\ ud[last'.user].mode \in NumericModes
        /\ last'.reply \in InvalidReplies)
       => (ud' = ud /\ pending' = pending /\ closed' = closed)]_vars

C7_Witness ==
    /\ last.reply = "invalid_entry"
    /\ ud[last.user].mode = "await_entry_open"
    /\ IsNone(ud[last.user].entry)

\* C8: after finalize_closing has committed the store move, user_data is
\* empty, whether the journal post succeeded or failed.
C8_SuccessClearsState == last.reply \in Succeeded => ud[last.user] = EmptyDraft

C8_Witness == last.reply = "publish_failed" /\ ud[last.user] = EmptyDraft

\* C9: when the store move fails, the close flow is aborted: user_data is empty.
C9_StoreFailureClearsState == last.reply = "store_failed" => ud[last.user] = EmptyDraft

\* C10: a failed journal post does not undo the store move: the row written
\* by this finalize is the newest row of closed_trades and the trade id is
\* not in pending_trades.
C10_PublishFailureKeepsMove ==
    [][last'.reply = "publish_failed"
       => /\ Len(closed') = Len(closed) + 1
          /\ closed'[Len(closed')].trade_id = last'.tid
          /\ SubSeq(closed', 1, Len(closed)) = closed
          /\ last'.tid \notin TradeIdsOf(pending')]_vars

C10_Witness ==
    /\ last.reply = "publish_failed"
    /\ last.was_pending
    /\ last.tid \in TradeIdsOf(closed)

C12_IdCollisionRecovered ==
    [][(/\ last'.op = "text"
        /\ ud[last'.user].mode = "await_tp_open"
        /\ last'.reply \notin InvalidReplies
        /\ last'.tid \in TradeIdsOf(pending))
       => (/\ last'.reply = "saved"
           /\ Len(pending') = Len(pending) + 1
           /\ ud'[last'.user] = EmptyDraft)]_vars

\* what float() makes of an accepted SL or TP text: NONE and N stand for no value
ParseOptional(text) == IF IsNoneWord(text) THEN None ELSE ParseFloat(text)

OpenModes == {"await_lot_open", "await_sl_open", "await_tp_open"}

\* C13: round trip of the open flow.  An accepted entry, lot and SL text is
\* stored in the draft as the number typed; the draft keeps what was typed until
\* the flow is saved or left; and the save leaves in pending_trades exactly one
\* row with the generated trade id, whose symbol, side, entry, sl and lot are
\* those of the draft and whose tp is the TP typed.
C13_OpenFlowRoundTrip ==
    [][LET u == last'.user
           d == ud[u]
           e == ud'[u]
           rows == SelectSeq(pending', LAMBDA r : r.trade_id = last'.tid)
       IN last'.op \notin {"init", "tick"} =>
          /\ (last'.op = "text" /\ d.mode = "await_entry_open" /\ last'.reply = "ask_lot")
                => e.entry = ParseFloat(last'.text) /\ ~IsNone(e.entry)
          /\ (last'.op = "text" /\ d.mode = "await_lot_open" /\ last'.reply = "ask_sl")
                => e.lot = ParseFloat(last'.text) /\ ~IsNone(e.lot)
          /\ (last'.op = "text" /\ d.mode = "await_sl_open" /\ last'.reply = "ask_tp")
                => e.sl = ParseOptional(last'.text)
          /\ (d.mode \in OpenModes /\ e.mode \in OpenModes)
                => /\ e.symbol = d.symbol /\ e.side = d.side /\ e.entry = d.entry
                   /\ d.mode # "await_lot_open" => e.lot = d.lot
                   /\ d.mode = "await_tp_open" => e.sl = d.sl
          /\ last'.reply = "saved"
                => /\ Len(rows) = 1
                   /\ rows[1].symbol = d.symbol /\ rows[1].side = d.side
                   /\ rows[1].entry = d.entry /\ rows[1].sl = d.sl
                   /\ rows[1].lot = d.lot
                   /\ rows[1].tp = ParseOptional(last'.text)]_vars

C13_Witness ==
    /\ last.reply = "saved"
    /\ last.text = "1.1100"
    /\ \E i \in DOMAIN pending :
          /\ pending[i].trade_id = last.tid
          /\ pending[i].tp = Some(11100)
          /\ pending[i].sl = Some(10950)
          /\ pending[i].entry = Some(11000)

\* C14: when the user answered SAME in closing_open_ts, the closed row written
\* by finalize_closing has the open_ts of the pending row it was promoted from.
C14_SameKeepsOpenTs ==
    [][LET u == last'.user
           d == ud[u]
       IN (/\ last'.reply \in Succeeded
           /\ last'.was_pending
           /\ ~IsNone(d.open_ts)
           /\ d.open_ts = d.open_ts_pending)
          => closed'[Len(closed')].open_ts
                = Val(SelectByTradeId(pending, last'.tid)).open_ts]_vars

C14_Witness ==
    /\ last.reply = "closed_ok"
    /\ last.was_pending
    /\ now = 1
    /\ closed[Len(closed)].trade_id = last.tid
    /\ closed[Len(closed)].open_ts = Some(0)

\* score_shown of an open flow: a symbol is set, a direction is chosen and the
\* checklist DONE has computed the score (the code keeps the mode
\* await_direction_for_check from the symbol to the score)
ScoreShown(d) ==
    /\ d.mode = "await_direction_for_check"
    /\ d.symbol # NoStr
    /\ d.side # NoStr
    /\ ~IsNone(d.score)

\* C15: a user's mode becomes await_entry_open only from score_shown of an
\* open flow; no update received in another state moves the user there.
C15_EntryOnlyFromScoreShown ==
    [][last'.op \notin {"init", "tick"} =>
          ((/\ ud'[last'.user].mode = "await_entry_open"
            /\ ud[last'.user].mode # "await_entry_open")
           => ScoreShown(ud[last'.user]))]_vars

\* the modes from which a text step enters each mode of the close chain
CloseChainBefore(mode) ==
    CASE mode = "closing_lot" -> {"closing_exit"}
      [] mode = "closing_open_ts" -> {"closing_exit", "closing_lot"}
      [] mode = "closing_close_ts" -> {"closing_open_ts"}
      [] mode = "closing_reason" -> {"closing_close_ts"}
      [] mode = "closing_result" -> {"closing_reason"}
      [] mode = "closing_pnl" -> {"closing_result"}
      [] mode = "closing_photos" -> {"closing_pnl"}
      [] OTHER -> {}

CloseChainModes ==
    {"closing_lot", "closing_open_ts", "closing_close_ts", "closing_reason",
     "closing_result", "closing_pnl", "closing_photos"}

\* a draft in closing_photos holds the selected row and every accepted answer
CloseDraftComplete(d) ==
    /\ ~IsNone(d.pending_row)
    /\ ~IsNone(d.exit) /\ ~IsNone(d.lot)
    /\ ~IsNone(d.open_ts) /\ ~IsNone(d.close_ts)
    /\ d.reason # NoStr /\ d.result # NoStr /\ d.pnl # NoStr

\* C16: the close chain is followed in order.  finalize_closing runs, and a
\* closed row is added, only for a user in closing_photos who sends DONE; each
\* mode of the chain is entered only by a text accepted in the mode before it;
\* closing_exit is entered only with a row selected from pending_trades; and
\* a draft in closing_photos holds every answer of the chain.
C16_CloseChainInOrder ==
    [][LET u == last'.user
           d == ud[u]
           e == ud'[u]
       IN last'.op \notin {"init", "tick"} =>
          /\ (Len(closed') > Len(closed) \/ last'.reply \in Succeeded \cup {"store_failed"})
                => /\ d.mode = "closing_photos"
                   /\ last'.op \in {"text", "photo"}
                   /\ last'.op = "text" => last'.text = "DONE"
          /\ (e.mode \in CloseChainModes /\ e.mode # d.mode)
                => last'.op = "text" /\ d.mode \in CloseChainBefore(e.mode)
          /\ (e.mode = "closing_exit" /\ e # d)
                => /\ \E i \in DOMAIN pending : e.pending_row = Some(pending[i])
                   /\ IsNone(e.exit)
          /\ d.mode = "closing_photos" => CloseDraftComplete(d)]_vars

C16_Witness ==
    /\ last.op = "photo"
    /\ last.reply = "closed_ok"
    /\ last.tid \in TradeIdsOf(closed)

\* C17: after the not-found message of a close request (close <symbol>, a
\* symbol typed in closing_pair, a CLOSE_SEL button of a vanished trade) the
\* user's user_data is empty, whatever it held before.
C17_NotFoundClearsState == last.reply = "not_found" => ud[last.user] = EmptyDraft

\* C18: every row of closed_trades has a result that is WIN, LOSS or BE.
C18_ResultIsWinLossBe ==
    \A i \in DOMAIN closed : closed[i].result \in {"WIN", "LOSS", "BE"}

\* C19: every row of pending_trades has a lot greater than zero.
C19_PendingLotPositive ==
    \A i \in DOMAIN pending : ~IsNone(pending[i].lot) /\ Val(pending[i].lot) > 0

\* C20: the photo list of a close flow, and of every row of closed_trades,
\* holds at most 10 photo references.
C20_AtMostTenPhotos ==
    /\ \A u \in Users : ~IsNone(ud[u].photos) => Len(Val(ud[u].photos)) <= 10
    /\ \A i \in DOMAIN closed : Len(closed[i].photos) <= 10

\* checklist items outside the AOI pair: the first, the zero-point and the
\* last item of CHECKLIST_ITEMS
PlainKeys == {"trend_week", "entry_1h_ms", "conf_2h_hs"}

\* the selection of user_data, with any of the plain items selected as well
Selections(d) ==
    LET sel == Val(d.checklist)
    IN {[k \in (DOMAIN sel) \cup X |-> IF k \in X THEN TRUE ELSE sel[k]] :
           X \in SUBSET PlainKeys}

BothAoi(sel) == Get(sel, "aoi_valid") /\ Get(sel, "aoi_plus")

\* C21: for every checklist selection in which aoi_valid and aoi_plus are both
\* true, calc_score returns the total and the breakdown it returns for the
\* selection that differs only in aoi_valid being false, the breakdown has no
\* aoi_valid entry, and DONE stores that total and that breakdown.
C21_AoiValidAddsNothing ==
    [][\A u \in Users :
          ~IsNone(ud[u].checklist) =>
             /\ \A sel \in Selections(ud[u]) :
                   BothAoi(sel) =>
                      LET off == [sel EXCEPT !["aoi_valid"] = FALSE]
                      IN /\ calc_score(sel).total = calc_score(off).total
                         /\ calc_score(sel).breakdown = calc_score(off).breakdown
                         /\ \A i \in DOMAIN calc_score(sel).breakdown :
                               calc_score(sel).breakdown[i][1] # "aoi_valid"
             /\ (last'.reply = "score_shown" /\ last'.user = u
                   /\ BothAoi(Val(ud[u].checklist)))
                   => LET off == [Val(ud[u].checklist) EXCEPT !["aoi_valid"] = FALSE]
                      IN /\ ud'[u].score = Some(calc_score(off).total)
                         /\ ud'[u].score_breakdown = Some(calc_score(off).breakdown)]_vars

\* DONE has scored a selection in which aoi_valid had been toggled and
\* aoi_plus is selected: 20 points, one breakdown entry
C21_Witness ==
    /\ last.reply = "score_shown"
    /\ ~IsNone(ud[1].checklist)
    /\ "aoi_valid" \in DOMAIN Val(ud[1].checklist)
    /\ Get(Val(ud[1].checklist), "aoi_plus")
    /\ ud[1].score = Some(20)
    /\ ud[1].score_breakdown = Some(<< <<"aoi_plus", 20>> >>)

\* C22: the score of every row of pending_trades and of closed_trades is an
\* integer from 0 to MAX_SCORE, whatever TOGGLE, RESET and DONE presses came
\* before the save.
C22_StoredScoreInRange ==
    /\ \A i \in DOMAIN pending :
          ~IsNone(pending[i].score) /\ Val(pending[i].score) \in 0..MAX_SCORE
    /\ \A i \in DOMAIN closed :
          ~IsNone(closed[i].score) /\ Val(closed[i].score) \in 0..MAX_SCORE

\* a trade scored 20 has been closed and a trade scored 10 is pending
C22_Witness ==
    /\ \E i \in DOMAIN closed : closed[i].score = Some(20)
    /\ \E i \in DOMAIN pending : pending[i].score = Some(10)

\* C23: calc_score leaves the selection it is given as it was: the checklist
\* in user_data after DONE is the checklist before it, also when aoi_valid
\* and aoi_plus are both selected.
C23_DoneKeepsSelection ==
    [][\A u \in Users :
          (last'.reply = "score_shown" /\ last'.user = u)
             => /\ ud'[u].checklist = ud[u].checklist
                /\ ~IsNone(ud[u].checklist)
                      => calc_score(Val(ud[u].checklist)).selected = Val(ud[u].checklist)]_vars

\* C24: a second DEL_PENDING of the same trade id, directly after the first,
\* raises nothing and leaves pending_trades, closed_trades and the user's
\* user_data as the first delete left them.
C24_SecondDeleteIsNoOp ==
    [][/\ (last.op = "callback" /\ last.reply = "pending_deleted")
          => LET r == callback_query_router(ud[last.user], TradeButton("DEL_PENDING", last.tid),
                                            pending, closed, now)
             IN /\ r.reply = "pending_deleted"
                /\ r.pending = pending
                /\ r.closed = closed
                /\ r.d = ud[last.user]
       /\ (/\ last.op = "callback" /\ last.reply = "pending_deleted"
           /\ last'.op = "callback" /\ last'.tid = last.tid /\ last'.user = last.user
           /\ last'.reply \in {"pending_deleted", "exception"})
          => /\ last'.reply = "pending_deleted"
             /\ pending' = pending
             /\ closed' = closed
             /\ ud' = ud]_vars

\* DEL_PENDING has been pressed again for a trade that an earlier DEL_PENDING
\* removed, by a user in a close flow for it, with a row in closed_trades
C24_Witness ==
    /\ last.op = "callback" /\ last.reply = "pending_deleted"
    /\ ~last.was_pending
    /\ last.tid \in deleted
    /\ closed # << >>

\* the items a checklist dict shows as selected
Selected(d) ==
    IF IsNone(d.checklist) THEN {}
    ELSE {k \in DOMAIN Val(d.checklist) : Val(d.checklist)[k]}

\* the checklist state: a direction has been chosen and DONE not yet pressed
ChecklistActive(d) ==
    /\ d.mode = "await_direction_for_check"
    /\ ~IsNone(d.checklist)
    /\ IsNone(d.score)

\* what TOGGLE and RESET leave alone: everything but the checklist
SameButChecklist(d, e) == [d EXCEPT !.checklist = None] = [e EXCEPT !.checklist = None]

\* C25: in the checklist state a TOGGLE flips its item and no other, so that
\* toggling an item twice, or two items twice in either order, restores the
\* selection; RESET unselects every item; TOGGLE and RESET change nothing but
\* the checklist; it is DONE, and no other update, that stores the score and
\* shows it.
C25_ChecklistAlgebra ==
    [][\A u \in Users :
          /\ ChecklistActive(ud[u]) =>
                \A k1, k2 \in ScoreKeys \cup PlainKeys :
                   /\ Selected(Toggle(Toggle(ud[u], k1), k1)) = Selected(ud[u])
                   /\ Selected(Toggle(Toggle(ud[u], k1), k2))
                         = Selected(Toggle(Toggle(ud[u], k2), k1))
                   /\ Selected(Toggle(Toggle(Toggle(Toggle(ud[u], k1), k2), k1), k2))
                         = Selected(ud[u])
          /\ (last'.user = u /\ last'.op = "callback" /\ last'.text \in ScoreKeys)
                => /\ ud'[u] = Toggle(ud[u], last'.text)
                   /\ Selected(ud'[u]) =
                         IF last'.text \in Selected(ud[u])
                         THEN Selected(ud[u]) \ {last'.text}
                         ELSE Selected(ud[u]) \cup {last'.text}
                   /\ SameButChecklist(ud[u], ud'[u])
                   /\ pending' = pending /\ closed' = closed
          /\ (last'.user = u /\ last'.op = "callback" /\ last'.text = "RESET")
                => /\ ~IsNone(ud'[u].checklist) /\ Selected(ud'[u]) = {}
                   /\ SameButChecklist(ud[u], ud'[u])
                   /\ pending' = pending /\ closed' = closed
          /\ (last'.user = u /\ last'.reply = "score_shown" /\ ChecklistActive(ud[u]))
                => /\ ud'[u].score = Some(calc_score(Val(ud[u].checklist)).total)
                   /\ ScoreShown(ud'[u])
          /\ (last'.user = u /\ ~ScoreShown(ud[u]) /\ ScoreShown(ud'[u]))
                => last'.reply = "score_shown"
          /\ (last'.user = u /\ ud'[u].score # ud[u].score /\ ~IsNone(ud'[u].score))
                => last'.reply = "score_shown"]_vars

\* a second TOGGLE of aoi_valid has unselected it again, with aoi_plus selected
C25_Witness ==
    /\ last.op = "callback" /\ last.text = "aoi_valid"
    /\ ChecklistActive(ud[1])
    /\ "aoi_valid" \in DOMAIN Val(ud[1].checklist)
    /\ Selected(ud[1]) = {"aoi_plus"}

\* the rows of a table that are also rows of another, in their order
RowsKept(rows, others) ==
    SelectSeq(rows, LAMBDA r : \E j \in DOMAIN others : others[j] = r)

\* C26: a row of pending_trades is gone after an update only when the update
\* was a DEL_PENDING of its trade id or a finalize_closing that moved that
\* trade id; every other row is in the table afterwards, unchanged and in the
\* same order.
C26_PendingRowsLeaveByDeleteOrClose ==
    [][/\ \A i \in DOMAIN pending :
             (\A j \in DOMAIN pending' : pending'[j] # pending[i])
                => /\ last'.tid = pending[i].trade_id
                   /\ \/ last'.op = "callback" /\ last'.reply = "pending_deleted"
                      \/ last'.reply \in Succeeded
       /\ RowsKept(pending, pending') = RowsKept(pending', pending)]_vars

\* DEL_PENDING has removed the one pending trade while an earlier trade is in
\* closed_trades
C26_Witness ==
    /\ last.op = "callback" /\ last.reply = "pending_deleted" /\ last.was_pending
    /\ pending = << >>
    /\ closed # << >>

\* C27: finalize_closing posts to the journal only after the store move has
\* committed, and once: an update posts at most once, a post comes with the
\* closed row in closed_trades, a failed store move is followed by no post, a
\* failed post is reported and the update after it posts nothing.
C27_PublishOnceAfterCommit ==
    [][/\ last'.pubs \in {0, 1}
       /\ last'.pubs = 1
             => /\ last'.reply \in Succeeded
                /\ last'.fail = "none"
                /\ last'.tid \in TradeIdsOf(closed')
                /\ last'.tid \notin TradeIdsOf(pending')
       /\ last'.reply = "store_failed" => last'.pubs = 0
       /\ last'.reply \in Succeeded => last'.pubs = 1
       /\ last.reply = "publish_failed" => last'.pubs = 0]_vars

\* the commit of a store move has raised: the row is still pending and no
\* post was attempted
C27_Witness ==
    /\ last.reply = "store_failed"
    /\ last.fail = "commit"
    /\ last.pubs = 0
    /\ last.tid \in TradeIdsOf(pending)
    /\ last.tid \notin TradeIdsOf(closed)

\* C28: /start without a symbol puts the user into the mode that waits for a
\* symbol (checking_pair, the mode the Check Trade button sets), from which
\* a typed symbol leads to the choice of a direction.
C28_StartWithoutSymbolAsksForIt ==
    \A u \in Users :
       LET r == start_cmd(ud[u], << >>, pending, closed)
           s == text_router(u, r.d, "eurusd", r.pending, r.closed, now, "none", TRUE)
       IN /\ r.d.mode = "checking_pair"
          /\ s.d.mode = "await_direction_for_check"
          /\ s.d.symbol = "EURUSD"

\* differences in minutes with each pattern of zero and non-zero days, hours
\* and minutes, and the rendering the rule gives for each
DurationSamples ==
    { <<0, "0m">>, <<1, "1m">>, <<60, "1h">>, <<150, "2h 30m">>,
      <<1440, "1d">>, <<1441, "1d 1m">>, <<1500, "1d 1h">>, <<1590, "1d 2h 30m">>,
      <<2879, "1d 23h 59m">>, <<4320, "3d">> }

\* open stamps in whole minutes: the start of the clock, a minute later, and
\* a stamp late in a day
OpenSamples == {0, 60, 86340}

WholeMinute(t) == t % 60 = 0

\* C29: for timestamps in whole minutes with open not later than close,
\* pretty_duration renders the difference as days, hours and minutes, leaves
\* out every component that is zero and renders "0m" for no difference; the
\* duration of a closed row is that rendering of its flow's stamps, "2h 30m"
\* for a difference of 150 minutes.
C29_DurationRendering ==
    /\ \A o \in OpenSamples : \A s \in DurationSamples :
          pretty_duration(o, o + 60 * s[1]) = s[2]
    /\ \A i \in DOMAIN closed :
          LET row == closed[i]
          IN (/\ ~IsNone(row.open_ts) /\ ~IsNone(row.close_ts)
              /\ WholeMinute(Val(row.open_ts)) /\ WholeMinute(Val(row.close_ts))
              /\ Val(row.open_ts) <= Val(row.close_ts))
                => /\ row.duration = pretty_duration(Val(row.open_ts), Val(row.close_ts))
                   /\ Val(row.close_ts) - Val(row.open_ts) = 150 * 60
                         => row.duration = "2h 30m"

\* a trade opened at 09:00 has been closed at 11:30
C29_Witness ==
    \E i \in DOMAIN closed :
        /\ closed[i].open_ts = Some(0)
        /\ closed[i].close_ts = Some(9000)
        /\ closed[i].duration = "2h 30m"

\* C30: the rows the week summary and the week stats count are rows closed in
\* the current week: their close time has the ISO year and the ISO week of
\* the clock.
C30_WeekCountsCurrentWeekOnly ==
    \A i \in DOMAIN closed :
       LET row == closed[i]
           counted == \E j \in DOMAIN FilterPeriod(closed, "week", now) :
                         FilterPeriod(closed, "week", now)[j] = row
       IN (counted
           /\ compute_and_send_summary(ud[1], "week", pending, closed, now).reply = "summary"
           /\ compute_and_send_stats(ud[1], "week", pending, closed, now).reply = "stats")
             => /\ isocalendar(Val(row.close_ts)).year = isocalendar(now).year
                /\ isocalendar(Val(row.close_ts)).week = isocalendar(now).week

\* C31: every row of pending_trades has a symbol and a side that is BUY or
\* SELL, also when TAKE|YES, CHECK|DIR or DONE buttons of old messages are
\* pressed while the user is idle or in a close flow.
C31_PendingSymbolAndSide ==
    \A i \in DOMAIN pending :
       /\ pending[i].symbol # NoStr
       /\ pending[i].symbol # ""
       /\ pending[i].side \in {"BUY", "SELL"}

\* the selection a draft holds: no checklist reads as nothing selected
SelectionOf(d) == IF IsNone(d.checklist) THEN << >> ELSE Val(d.checklist)

\* C32: the score of a row the save writes to pending_trades is calc_score of
\* the selection user_data holds when the save runs.
C32_SavedScoreIsScoreOfSelection ==
    [][last'.reply = "saved"
          => pending'[Len(pending')].score
                = Some(calc_score(SelectionOf(ud[last'.user])).total)]_vars

\* C33: the duration of every row of closed_trades is pretty_duration of the
\* row's own open_ts and close_ts, also when the open time was typed in the
\* close flow.
C33_DurationMatchesOwnStamps ==
    \A i \in DOMAIN closed :
       (~IsNone(closed[i].open_ts) /\ ~IsNone(closed[i].close_ts))
          => closed[i].duration
                = pretty_duration(Val(closed[i].open_ts), Val(closed[i].close_ts))

\* the core fields finalize_closing copies from the snapshot
CoreFields(row) ==
    [trade_id |-> row.trade_id, user_id |-> row.user_id, symbol |-> row.symbol,
     side |-> row.side, entry |-> row.entry, sl |-> row.sl, tp |-> row.tp,
     lot |-> row.lot, open_ts |-> row.open_ts, score |-> row.score,
     score_breakdown |-> row.score_breakdown]

\* a draft in a mode of the close chain holds the pending row and its id
SnapshotHeld(d) ==
    d.mode \in CloseChainModes \cup {"closing_exit"}
       => /\ ~IsNone(d.pending_row)
          /\ d.trade_id_pending = Some(Val(d.pending_row).trade_id)

\* C34: a user in a mode of the close chain, closing_exit to closing_photos,
\* has the pending row in user_data; every run of finalize_closing works on
\* the trade id of that row and a closed row it writes has the row's core
\* fields, never a newly generated id.
C34_CloseFlowHasSnapshot ==
    [][/\ \A u \in Users : SnapshotHeld(ud[u]) /\ SnapshotHeld(ud'[u])
       /\ last'.reply \in Succeeded \cup {"store_failed"}
             => /\ ~IsNone(ud[last'.user].pending_row)
                /\ last'.tid = Val(ud[last'.user].pending_row).trade_id
                /\ last'.reply \in Succeeded
                      => CoreFields(closed'[Len(closed')])
                            = CoreFields(Val(ud[last'.user].pending_row))]_vars

\* finalize_closing has run for a user who is still in closing_photos with the
\* row of the trade it worked on
C34_Witness ==
    /\ last.reply = "store_failed"
    /\ ud[1].mode = "closing_photos"
    /\ ~IsNone(ud[1].pending_row)
    /\ last.tid = Val(ud[1].pending_row).trade_id

\* the rows of a table that carry a trade id
RowsOf(rows, tid) == SelectSeq(rows, LAMBDA r : r.trade_id = tid)

\* C35: when the store move of finalize_closing fails the user is still in
\* closing_photos with the draft as it was (with the photo just sent, when
\* DONE came as its caption); when the next DONE finds the store working it
\* adds one row for the trade to closed_trades and the trade is no longer in
\* pending_trades.
C35_RetryAfterStoreFailure ==
    [][/\ last'.reply = "store_failed"
             => LET d == ud[last'.user]
                    e == ud'[last'.user]
                IN /\ e.mode = "closing_photos"
                   /\ last'.op = "text" => e = d
                   /\ last'.op = "photo"
                         => e = [d EXCEPT !.photos = Some(Append(Val(d.photos), "f1"))]
                   /\ pending' = pending /\ closed' = closed
       /\ (last.reply = "store_failed" /\ last'.reply \in Succeeded
              /\ last'.user = last.user)
             => /\ last'.tid = last.tid
                /\ Len(RowsOf(closed', last.tid)) = Len(RowsOf(closed, last.tid)) + 1
                /\ Len(closed') = Len(closed) + 1
                /\ last.tid \notin TradeIdsOf(pending')]_vars

\* the store move has failed at its INSERT for a DONE sent as a photo caption:
\* the user is in closing_photos with that photo and the trade is pending
C35_Witness ==
    /\ last.reply = "store_failed" /\ last.fail = "insert" /\ last.op = "photo"
    /\ ud[1].mode = "closing_photos"
    /\ ud[1].photos = Some(<<"f1">>)
    /\ last.tid \in TradeIdsOf(pending)

\* the date-times the model types, as stamps, and the stamp of the clock's start
TypedStamps ==
    {Val(parse_datetime(text)) :
        text \in {"2025-01-01 09:00", "2025-01-01 11:30", "2025-01-01 12:00",
                  "2024-01-03 09:00"}}

\* what pretty_duration renders for a close before the open
NegativeDurations ==
    {pretty_duration(p[1], p[2]) :
        p \in {q \in TypedStamps \X TypedStamps : q[2] < q[1]}}

\* C36: a close time before the flow's open time is not accepted in
\* closing_close_ts: no draft holds a close_ts earlier than its open_ts, and
\* no row of closed_trades has a duration rendered from a negative difference.
C36_CloseNotBeforeOpen ==
    /\ \A u \in Users :
          (~IsNone(ud[u].open_ts) /\ ~IsNone(ud[u].close_ts))
             => Val(ud[u].open_ts) <= Val(ud[u].close_ts)
    /\ \A i \in DOMAIN closed : closed[i].duration \notin NegativeDurations
====
